---- MODULE Spec2Model ----
(***************************************************************************)
(* Adaptive evaluation engine of code-llm-tutor: scoring of a submission,  *)
(* the POST /submit pipeline (persist, user statistics, difficulty         *)
(* adjustment, proficiency and recent-performance updates) and the warm-up *)
(* assessment write.  Scores are integers; coefficients are kept as scaled *)
(* integers (tenths or hundredths); proficiency values are kept in tenths. *)
(***************************************************************************)
EXTENDS Integers, Sequences, FiniteSets, TLC

(* ------------------------------ bounds -------------------------------- *)
NReq == 2
MaxPrior == 5
MaxFail == 1
MaxWarmup == 1
MaxCases == 10
MaxUpdates == 3
NHintReq == 2
MaxHintRows == 5
MaxRows == 2
MaxStreak == 4
MaxRunCases == 2

(* ------------------------- program constants -------------------------- *)
MinLevel == 1
MaxLevel == 10
WindowKeep == 9
EvalTake == 5
DefaultProficiency == 50
MinProficiency == 10
MaxProficiency == 100
DefaultStartLevel == 3
MaxAttempts == 20
InternalError == 13
MinHintLevel == 1
MaxHintLevel == 4

Req == 1..NReq
Categories == {"array", "dp"}

Min(a, b) == IF a < b THEN a ELSE b
Max(a, b) == IF a > b THEN a ELSE b

RECURSIVE Sum(_)
Sum(s) == IF s = <<>> THEN 0 ELSE Head(s) + Sum(Tail(s))

RECURSIVE MaxOf(_)
MaxOf(s) == IF Len(s) = 1 THEN s[1] ELSE Max(s[1], MaxOf(Tail(s)))

\* Array.prototype.slice(-n): the last n elements (all of them when shorter)
SliceLast(s, n) == IF Len(s) <= n THEN s ELSE SubSeq(s, Len(s) - n + 1, Len(s))
\* Array.prototype.slice(0, n)
SliceFirst(s, n) == IF Len(s) <= n THEN s ELSE SubSeq(s, 1, n)

(* ------------------------------ scoring ------------------------------- *)
\* as CorrectnessCoeff, with the 0.8 and 0.5 boundaries excluded
CorrectnessCoeff_Open(passedCount, totalCount) ==
  IF totalCount > 0 /\ passedCount = totalCount THEN 10
  ELSE IF totalCount > 0 /\ 10 * passedCount > 8 * totalCount THEN 7
  ELSE IF totalCount > 0 /\ 10 * passedCount > 5 * totalCount THEN 4
  ELSE 0

\* correctness coefficient in tenths
CorrectnessCoeff(passedCount, totalCount) ==
  IF totalCount > 0 /\ passedCount = totalCount THEN 10
  ELSE IF totalCount > 0 /\ 10 * passedCount >= 8 * totalCount THEN 7
  ELSE IF totalCount > 0 /\ 10 * passedCount >= 5 * totalCount THEN 4
  ELSE 0

\* as ExpectedTime, with the bands taken in thousandths of the time unit
ExpectedTime_Ms(difficulty) ==
  IF difficulty <= 2 THEN 300000
  ELSE IF difficulty <= 4 THEN 600000
  ELSE IF difficulty <= 6 THEN 900000
  ELSE IF difficulty <= 8 THEN 1200000
  ELSE 1800000

ExpectedTime(difficulty) ==
  IF difficulty <= 2 THEN 300
  ELSE IF difficulty <= 4 THEN 600
  ELSE IF difficulty <= 6 THEN 900
  ELSE IF difficulty <= 8 THEN 1200
  ELSE 1800

\* time coefficient in tenths; timeRatio = executionTime / expectedTime
TimeCoeff(executionTime, difficulty) ==
  LET expectedTime == ExpectedTime(difficulty) IN
  IF 2 * executionTime < expectedTime THEN 12
  ELSE IF executionTime <= expectedTime THEN 10
  ELSE IF executionTime <= 2 * expectedTime THEN 9
  ELSE 7

\* as HintPenalty, from the hint level listed last
HintPenalty_Last(hintsUsed) ==
  IF Len(hintsUsed) = 0 THEN 100
  ELSE LET lastLevel == hintsUsed[Len(hintsUsed)] IN
       IF lastLevel = 1 THEN 95
       ELSE IF lastLevel = 2 THEN 85
       ELSE IF lastLevel = 3 THEN 70
       ELSE IF lastLevel = 4 THEN 50
       ELSE 100

\* hint penalty in hundredths, from the maximum hint level used
HintPenalty(hintsUsed) ==
  IF Len(hintsUsed) = 0 THEN 100
  ELSE LET maxHintLevel == MaxOf(hintsUsed) IN
       IF maxHintLevel = 1 THEN 95
       ELSE IF maxHintLevel = 2 THEN 85
       ELSE IF maxHintLevel = 3 THEN 70
       ELSE IF maxHintLevel = 4 THEN 50
       ELSE 100

\* codeQuality || 1.0, in tenths (0 stands for a falsy or missing argument)
QualityCoeff(codeQuality) == IF codeQuality = 0 THEN 10 ELSE codeQuality

\* the coefficient combinations <<c, t, h, q>> whose exact product ends in .5
\* while the double product 100 * c * t * h * q, multiplied left to right,
\* falls just below it (59.49999999999999, 31.499999999999996)
BelowHalf == {<<10, 10, 85, 7>>, <<10, 9, 70, 5>>, <<10, 9, 50, 7>>}

\* as RoundScore, truncating instead of rounding
RoundScore_Floor(c, t, h, q) == (c * t * h * q) \div 1000

\* Math.round(100 * c * t * h * q) in IEEE doubles, with c,t,q in tenths and
\* h in hundredths
RoundScore(c, t, h, q) ==
  IF <<c, t, h, q>> \in BelowHalf THEN (c * t * h * q) \div 1000
  ELSE (c * t * h * q + 500) \div 1000

calculateScoreFactors(passedCount, totalCount, executionTime, difficulty, hintsUsed, codeQuality) ==
  LET c == CorrectnessCoeff(passedCount, totalCount)
      t == TimeCoeff(executionTime, difficulty)
      h == HintPenalty(hintsUsed)
      q == QualityCoeff(codeQuality)
  IN [correctnessCoeff |-> c, timeCoeff |-> t, hintPenalty |-> h,
      qualityCoeff |-> q, finalScore |-> RoundScore(c, t, h, q)]

\* as StatusOf, with an empty set of test cases counted as all passed
StatusOf_Vacuous(passedCount, totalCount) ==
  IF passedCount = totalCount THEN "accepted" ELSE "wrong_answer"

\* status derivation of POST /submit
StatusOf(passedCount, totalCount) ==
  IF totalCount > 0 /\ passedCount = totalCount THEN "accepted" ELSE "wrong_answer"

\* as SubmitQuality, with overallScore used as the coefficient without the
\* division by 10
SubmitQuality_Raw(status, analysis) ==
  IF status = "accepted" /\ analysis >= 0
  THEN (IF analysis = 0 THEN 10 ELSE 10 * analysis)
  ELSE 10

\* quality coefficient handed to calculateScoreFactors, in tenths:
\* analysis = -1 stands for a skipped or failed analysis, 0..10 is overallScore
SubmitQuality(status, analysis) ==
  IF status = "accepted" /\ analysis >= 0
  THEN (IF analysis = 0 THEN 10 ELSE analysis)
  ELSE 10

(* ----------------------- difficulty adjustment ------------------------ *)
AllAtLeast(s, v) == \A i \in 1..Len(s) : s[i] >= v
AllBelow(s, v) == \A i \in 1..Len(s) : s[i] < v

\* averageScore >= v  with averageScore = Sum(scores) / Len(scores)
AvgAtLeast(scores, v) == Sum(scores) >= v * Len(scores)
AvgBelow(scores, v) == Sum(scores) < v * Len(scores)

\* as shouldIncreaseDifficulty, with the consecutive rule asking for > 80
shouldIncreaseDifficulty_Strict(scores, currentLevel) ==
  IF currentLevel >= MaxLevel THEN FALSE
  ELSE IF Len(scores) >= 3 /\ AllAtLeast(SliceFirst(scores, 3), 81) THEN TRUE
  ELSE IF Len(scores) >= 5 /\ AvgAtLeast(scores, 85) THEN TRUE
  ELSE FALSE

shouldIncreaseDifficulty(scores, currentLevel) ==
  IF currentLevel >= MaxLevel THEN FALSE
  ELSE IF Len(scores) >= 3 /\ AllAtLeast(SliceFirst(scores, 3), 80) THEN TRUE
  ELSE IF Len(scores) >= 5 /\ AvgAtLeast(scores, 85) THEN TRUE
  ELSE FALSE

shouldDecreaseDifficulty(scores, currentLevel) ==
  IF currentLevel <= MinLevel THEN FALSE
  ELSE IF Len(scores) >= 2 /\ AllBelow(SliceFirst(scores, 2), 50) THEN TRUE
  ELSE IF Len(scores) >= 5 /\ AvgBelow(scores, 40) THEN TRUE
  ELSE FALSE

NoAdjustment == [shouldAdjust |-> FALSE, newLevel |-> 0, direction |-> "none"]

\* the decision of evaluateDifficultyAdjustment once the level and the
\* recent submissions' scores (most recent first, at most 5) have been read
evaluateDifficultyAdjustment(currentLevel, scores) ==
  IF Len(scores) < 2 THEN NoAdjustment
  ELSE IF shouldIncreaseDifficulty(scores, currentLevel)
       THEN [shouldAdjust |-> TRUE, newLevel |-> Min(currentLevel + 1, MaxLevel),
             direction |-> "up"]
  ELSE IF shouldDecreaseDifficulty(scores, currentLevel)
       THEN [shouldAdjust |-> TRUE, newLevel |-> Max(currentLevel - 1, MinLevel),
             direction |-> "down"]
  ELSE NoAdjustment

\* prisma.submission.findMany(status in ..., orderBy submittedAt desc, take 5)
EvalStatuses == {"accepted", "wrong_answer", "runtime_error"}
RECURSIVE Reverse(_)
Reverse(s) == IF s = <<>> THEN <<>> ELSE Append(Reverse(Tail(s)), Head(s))
IsEvalStatus(rec) == rec.status \in EvalStatuses
ScoresOf(recs) == [i \in 1..Len(recs) |-> recs[i].score]
recentSubmissionScores(subs) ==
  ScoresOf(SliceFirst(Reverse(SelectSeq(subs, IsEvalStatus)), EvalTake))

(* ------------------------ proficiency service ------------------------- *)
Adjustment(score) ==
  IF score >= 90 THEN 3
  ELSE IF score >= 80 THEN 2
  ELSE IF score >= 70 THEN 1
  ELSE IF score >= 60 THEN 0
  ELSE IF score >= 50 THEN -1
  ELSE -2

\* as UpdateOne, without the clamp to 1..10
UpdateOne_Unclamped(prof, type, score) ==
  LET current == IF prof[type] = 0 THEN DefaultProficiency ELSE prof[type]
  IN [prof EXCEPT ![type] = current + Adjustment(score)]

\* one iteration of the forEach: value 0 stands for an absent (or zero) entry
UpdateOne(prof, type, score) ==
  LET current == IF prof[type] = 0 THEN DefaultProficiency ELSE prof[type]
  IN [prof EXCEPT ![type] =
        Max(MinProficiency, Min(MaxProficiency, current + Adjustment(score)))]

RECURSIVE UpdateProficiency(_, _, _)
UpdateProficiency(prof, types, score) ==
  IF types = <<>> THEN prof
  ELSE UpdateProficiency(UpdateOne(prof, Head(types), score), Tail(types), score)

\* as PushScore, keeping the last 10 earlier entries instead of 9
PushScore_Keep10(window, score) == Append(SliceLast(window, WindowKeep + 1), score)

\* [...recentScores.slice(-9), score]
PushScore(window, score) == Append(SliceLast(window, WindowKeep), score)

(* ------------------------------- state -------------------------------- *)
VARIABLES
  user,         \* the one user's row: currentLevel, recentScores, counters, proficiency
  submissions,  \* the submissions table in submittedAt order
  pc,           \* where each submit request stands in the handler
  loc,          \* each request's local variables
  resp,         \* each request's HTTP response: "none", "ok" or "err500"
  fails,        \* database calls that have thrown so far
  warmups,      \* warm-up assessments written so far
  base,         \* the user row and submissions table of the initial state
  calc          \* inputs and result of a pure computation (SpecEval, SpecScore)

vars == <<user, submissions, pc, loc, resp, fails, warmups, base, calc>>

EmptyProf == [c \in Categories |-> 0]

\* a row as created at registration (column defaults of the users table)
NewUser ==
  [currentLevel |-> 1, recentScores |-> <<>>, totalSubmissions |-> 0,
   totalProblemsSolved |-> 0, algorithmProficiency |-> EmptyProf]

InitLoc ==
  [status |-> "none", score |-> 0, types |-> <<>>, passedCases |-> 0, totalCases |-> 0,
   snapScores |-> <<>>, level |-> 0, newLevel |-> 0, snapProf |-> EmptyProf,
   created |-> FALSE, pushes |-> 0, failed |-> FALSE, profTried |-> FALSE,
   request |-> "none", analyzer |-> "none", quality |-> 0]

\* what one submit request is given: the runner's verdicts on the problem's
\* test cases, parseInt of the first run's time, the problem, the hint levels
\* on record and the analyzer's overallScore (-1: analysis failed)
SubmitInputs ==
  [passed : {0, 4, 5}, total : {5}, time : {0}, difficulty : {5},
   hints : {<<>>, <<1, 2>>}, analysis : {-1, 4}, types : {<<"array">>},
   problem : {"own"}]
  \cup
  [passed : {5}, total : {5}, time : {0}, difficulty : {5},
   hints : {<<>>}, analysis : {-1}, types : {<<"array">>},
   problem : {"private"}]


\* scoreFactors of POST /submit
FactorsOfInput(in) ==
  LET status == StatusOf(in.passed, in.total) IN
  calculateScoreFactors(in.passed, in.total, in.time, in.difficulty, in.hints,
                        SubmitQuality(status, in.analysis))

ScoreOfInput(in) == FactorsOfInput(in).finalScore

\* what became of the quality analyzer in a request: it is called only in
\* the accepted branch, and a throw inside that branch is caught there
AnalyzerOutcome(status, analysis) ==
  IF status # "accepted" THEN "skipped"
  ELSE IF analysis < 0 THEN "failed"
  ELSE "ok"

\* the locals of a request after calculateScoreFactors
ScoredLoc(in) ==
  [InitLoc EXCEPT !.status = StatusOf(in.passed, in.total),
                  !.score = ScoreOfInput(in),
                  !.types = in.types,
                  !.passedCases = in.passed,
                  !.totalCases = in.total,
                  !.request = IF in.problem = "private" THEN "private" ELSE "valid",
                  !.analyzer = AnalyzerOutcome(StatusOf(in.passed, in.total), in.analysis),
                  !.quality = FactorsOfInput(in).qualityCoeff]

RecordOf(in) ==
  [score |-> ScoreOfInput(in), status |-> StatusOf(in.passed, in.total),
   passedCases |-> in.passed, totalCases |-> in.total]

\* the user statistics update that follows submission.create
StatsUpdate(u, snap, status, score) ==
  IF status = "accepted"
  THEN [u EXCEPT !.totalProblemsSolved = @ + 1, !.totalSubmissions = @ + 1,
                 !.recentScores = PushScore(snap, score)]
  ELSE [u EXCEPT !.totalSubmissions = @ + 1]

\* one whole POST /submit run with nothing interleaved and no failure
RunRecord(st, rec, types) ==
  LET subs1 == Append(st.submissions, rec)
      u1 == StatsUpdate(st.user, st.user.recentScores, rec.status, rec.score)
      adj == evaluateDifficultyAdjustment(u1.currentLevel, recentSubmissionScores(subs1))
      u2 == IF adj.shouldAdjust /\ adj.newLevel # 0
            THEN [u1 EXCEPT !.currentLevel = adj.newLevel] ELSE u1
      u3 == [u2 EXCEPT !.algorithmProficiency = UpdateProficiency(@, types, rec.score)]
      u4 == [u3 EXCEPT !.recentScores = PushScore(@, rec.score)]
  IN [user |-> u4, submissions |-> subs1]

RunPipeline(st, in) == RunRecord(st, RecordOf(in), in.types)

\* the i-th earlier submission of a user who starts with a history: all
\* accepted, alternately without hints and with hints 1 and 2
PriorInput(i) ==
  [passed |-> 5, total |-> 5, time |-> 0, difficulty |-> 5,
   hints |-> IF i % 2 = 1 THEN <<>> ELSE <<1, 2>>, analysis |-> -1,
   types |-> <<"array">>, problem |-> "own"]

RECURSIVE PriorState(_)
PriorState(k) ==
  IF k = 0 THEN [user |-> NewUser, submissions |-> <<>>]
  ELSE RunPipeline(PriorState(k - 1), PriorInput(k))

NoCalc == [kind |-> "none"]
NoFactors ==
  [correctnessCoeff |-> 0, timeCoeff |-> 0, hintPenalty |-> 0, qualityCoeff |-> 0,
   finalScore |-> 0]

Init ==
  /\ \E k \in 0..MaxPrior :
       /\ user = PriorState(k).user
       /\ submissions = PriorState(k).submissions
       /\ base = PriorState(k)
  /\ pc = [r \in Req |-> "idle"]
  /\ loc = [r \in Req |-> InitLoc]
  /\ resp = [r \in Req |-> "none"]
  /\ fails = 0
  /\ warmups = 0
  /\ calc = NoCalc

(* ------------------------- POST /submit steps ------------------------- *)
\* everything up to calculateScoreFactors: it writes nothing
\* as Submit, with a failed analysis answered as a server error
Submit_AnalyzerFatal(r) ==
  /\ pc[r] = "idle"
  /\ \E in \in SubmitInputs :
       /\ loc' = [loc EXCEPT ![r] = ScoredLoc(in)]
       /\ IF ScoredLoc(in).analyzer = "failed"
          THEN pc' = [pc EXCEPT ![r] = "done"] /\ resp' = [resp EXCEPT ![r] = "err500"]
          ELSE pc' = [pc EXCEPT ![r] = "persist"] /\ resp' = resp
  /\ UNCHANGED <<user, submissions, fails, warmups, base, calc>>

Submit(r) ==
  /\ pc[r] = "idle"
  /\ \E in \in SubmitInputs : loc' = [loc EXCEPT ![r] = ScoredLoc(in)]
  /\ pc' = [pc EXCEPT ![r] = "persist"]
  /\ UNCHANGED <<user, submissions, resp, fails, warmups, base, calc>>

\* the request body fails submitCodeSchema (400) or problem.findUnique finds
\* nothing (404): the handler returns before the runner is called
RejectKinds == {"malformed", "missing"}
Reject(r) ==
  /\ pc[r] = "idle"
  /\ \E kind \in RejectKinds :
       /\ loc' = [loc EXCEPT ![r].request = kind]
       /\ resp' = [resp EXCEPT ![r] = IF kind = "malformed" THEN "err400" ELSE "err404"]
  /\ pc' = [pc EXCEPT ![r] = "done"]
  /\ UNCHANGED <<user, submissions, fails, warmups, base, calc>>

\* prisma.submission.create
Persist(r) ==
  /\ pc[r] = "persist"
  /\ submissions' = Append(submissions,
                           [score |-> loc[r].score, status |-> loc[r].status,
                            passedCases |-> loc[r].passedCases,
                            totalCases |-> loc[r].totalCases])
  /\ loc' = [loc EXCEPT ![r].created = TRUE]
  /\ pc' = [pc EXCEPT ![r] = "stats"]
  /\ UNCHANGED <<user, resp, fails, warmups, base, calc>>

\* accepted: prisma.user.findUnique(recentScores, currentLevel)
StatsRead(r) ==
  /\ pc[r] = "stats"
  /\ loc[r].status = "accepted"
  /\ loc' = [loc EXCEPT ![r].snapScores = user.recentScores]
  /\ pc' = [pc EXCEPT ![r] = "stats_write"]
  /\ UNCHANGED <<user, submissions, resp, fails, warmups, base, calc>>

\* accepted: prisma.user.update(increments, recentScores)
StatsWrite(r) ==
  /\ pc[r] = "stats_write"
  /\ user' = [user EXCEPT !.totalProblemsSolved = @ + 1,
                          !.totalSubmissions = @ + 1,
                          !.recentScores = PushScore(loc[r].snapScores, loc[r].score)]
  /\ loc' = [loc EXCEPT ![r].pushes = @ + 1, ![r].snapScores = <<>>]
  /\ pc' = [pc EXCEPT ![r] = "eval_level"]
  /\ UNCHANGED <<submissions, resp, fails, warmups, base, calc>>

\* as StatsCount, counting the submission as a solved problem too
StatsCount_Solved(r) ==
  /\ pc[r] = "stats"
  /\ loc[r].status # "accepted"
  /\ user' = [user EXCEPT !.totalSubmissions = @ + 1, !.totalProblemsSolved = @ + 1]
  /\ pc' = [pc EXCEPT ![r] = "eval_level"]
  /\ UNCHANGED <<submissions, loc, resp, fails, warmups, base, calc>>

\* not accepted: prisma.user.update(totalSubmissions increment)
StatsCount(r) ==
  /\ pc[r] = "stats"
  /\ loc[r].status # "accepted"
  /\ user' = [user EXCEPT !.totalSubmissions = @ + 1]
  /\ pc' = [pc EXCEPT ![r] = "eval_level"]
  /\ UNCHANGED <<submissions, loc, resp, fails, warmups, base, calc>>

\* evaluateDifficultyAdjustment: prisma.user.findUnique(currentLevel)
EvalReadLevel(r) ==
  /\ pc[r] = "eval_level"
  /\ loc' = [loc EXCEPT ![r].level = user.currentLevel]
  /\ pc' = [pc EXCEPT ![r] = "eval_subs"]
  /\ UNCHANGED <<user, submissions, resp, fails, warmups, base, calc>>

\* as EvalSource, reading the user's recent-score window instead
EvalSource_Window(r) == Reverse(SliceLast(user.recentScores, EvalTake))

\* the scores the difficulty decision reads
EvalSource(r) == recentSubmissionScores(submissions)

\* evaluateDifficultyAdjustment: prisma.submission.findMany and the decision
EvalReadSubs(r) ==
  /\ pc[r] = "eval_subs"
  /\ LET scores == EvalSource(r)
         adj == evaluateDifficultyAdjustment(loc[r].level, scores)
         apply == adj.shouldAdjust /\ adj.newLevel # 0
     IN /\ loc' = [loc EXCEPT ![r].level = 0,
                              ![r].newLevel = IF apply THEN adj.newLevel ELSE 0]
        /\ pc' = [pc EXCEPT ![r] = IF apply THEN "apply" ELSE "prof_read"]
  /\ UNCHANGED <<user, submissions, resp, fails, warmups, base, calc>>

\* applyDifficultyAdjustment: prisma.user.update(currentLevel)
ApplyAdjustment(r) ==
  /\ pc[r] = "apply"
  /\ user' = [user EXCEPT !.currentLevel = loc[r].newLevel]
  /\ loc' = [loc EXCEPT ![r].newLevel = 0]
  /\ pc' = [pc EXCEPT ![r] = "prof_read"]
  /\ UNCHANGED <<submissions, resp, fails, warmups, base, calc>>

\* updateAlgorithmProficiency: prisma.user.findUnique(algorithmProficiency)
ProfRead(r) ==
  /\ pc[r] = "prof_read"
  /\ loc' = [loc EXCEPT ![r].snapProf = user.algorithmProficiency, ![r].newLevel = 0,
                         ![r].profTried = TRUE]
  /\ pc' = [pc EXCEPT ![r] = "prof_write"]
  /\ UNCHANGED <<user, submissions, resp, fails, warmups, base, calc>>

\* updateAlgorithmProficiency: prisma.user.update(algorithmProficiency)
ProfWrite(r) ==
  /\ pc[r] = "prof_write"
  /\ user' = [user EXCEPT !.algorithmProficiency =
                UpdateProficiency(loc[r].snapProf, loc[r].types, loc[r].score)]
  /\ loc' = [loc EXCEPT ![r].snapProf = EmptyProf]
  /\ pc' = [pc EXCEPT ![r] = "rp_read"]
  /\ UNCHANGED <<submissions, resp, fails, warmups, base, calc>>

\* updateRecentPerformance: prisma.user.findUnique(recentScores)
RecentRead(r) ==
  /\ pc[r] = "rp_read"
  /\ loc' = [loc EXCEPT ![r].snapScores = user.recentScores]
  /\ pc' = [pc EXCEPT ![r] = "rp_write"]
  /\ UNCHANGED <<user, submissions, resp, fails, warmups, base, calc>>

\* updateRecentPerformance: prisma.user.update(recentScores)
RecentWrite(r) ==
  /\ pc[r] = "rp_write"
  /\ user' = [user EXCEPT !.recentScores = PushScore(loc[r].snapScores, loc[r].score)]
  /\ loc' = [loc EXCEPT ![r].pushes = @ + 1, ![r].snapScores = <<>>]
  /\ pc' = [pc EXCEPT ![r] = "respond"]
  /\ UNCHANGED <<submissions, resp, fails, warmups, base, calc>>

\* res.json(...)
Respond(r) ==
  /\ pc[r] = "respond"
  /\ resp' = [resp EXCEPT ![r] = "ok"]
  /\ pc' = [pc EXCEPT ![r] = "done"]
  /\ UNCHANGED <<user, submissions, loc, fails, warmups, base, calc>>

\* as AfterThrow, with a failed submission.create logged and passed over
AfterThrow_Swallow(p) ==
  IF p = "persist" THEN "stats"
  ELSE IF p \in {"stats", "stats_write", "eval_level", "eval_subs"} THEN "done"
  ELSE IF p = "apply" THEN "prof_read"
  ELSE IF p \in {"prof_read", "prof_write"} THEN "rp_read"
  ELSE "respond"

\* where the handler continues when the database call at p throws: the
\* route's own catch answers 500; the services' catches log and return
AfterThrow(p) ==
  IF p \in {"persist", "stats", "stats_write", "eval_level", "eval_subs"} THEN "done"
  ELSE IF p = "apply" THEN "prof_read"
  ELSE IF p \in {"prof_read", "prof_write"} THEN "rp_read"
  ELSE "respond"

DbPcs == {"persist", "stats", "stats_write", "eval_level", "eval_subs", "apply",
          "prof_read", "prof_write", "rp_read", "rp_write"}

\* the locals a request no longer reads once a call has thrown
Forget(l) ==
  [l EXCEPT !.snapScores = <<>>, !.level = 0, !.newLevel = 0, !.snapProf = EmptyProf]

\* a prisma call of request r throws
DbFail(r) ==
  /\ pc[r] \in DbPcs
  /\ fails < MaxFail
  /\ fails' = fails + 1
  /\ loc' = [loc EXCEPT ![r] = [Forget(@) EXCEPT !.failed = TRUE,
                                                !.profTried = @ \/ pc[r] = "prof_read"]]
  /\ pc' = [pc EXCEPT ![r] = AfterThrow(pc[r])]
  /\ resp' = [resp EXCEPT ![r] = IF AfterThrow(pc[r]) = "done" THEN "err500" ELSE @]
  /\ UNCHANGED <<user, submissions, warmups, base, calc>>

Step(r) ==
  \/ Submit(r)
  \/ Reject(r)
  \/ Persist(r)
  \/ StatsRead(r)
  \/ StatsWrite(r)
  \/ StatsCount(r)
  \/ EvalReadLevel(r)
  \/ EvalReadSubs(r)
  \/ ApplyAdjustment(r)
  \/ ProfRead(r)
  \/ ProfWrite(r)
  \/ RecentRead(r)
  \/ RecentWrite(r)
  \/ Respond(r)
  \/ DbFail(r)

(* ----------------------- warm-up assessment write --------------------- *)
\* the integers the assessment JSON may carry (0: missing, null or 0)
AssessRecommended == {0, 4, 12}
AssessLevel == {0, -1, 7}
AssessProficiency == {EmptyProf, [c \in Categories |-> IF c = "array" THEN 70 ELSE 0]}

\* assessment.recommendedStartLevel || assessment.level || 3
AssessedLevel(recommendedStartLevel, level) ==
  IF recommendedStartLevel # 0 THEN recommendedStartLevel
  ELSE IF level # 0 THEN level
  ELSE DefaultStartLevel

\* POST /chat when the reply carries a parseable assessment
WarmupAssessment ==
  /\ warmups < MaxWarmup
  /\ warmups' = warmups + 1
  /\ \E rs \in AssessRecommended, lv \in AssessLevel, pr \in AssessProficiency :
       user' = [user EXCEPT !.currentLevel = AssessedLevel(rs, lv),
                            !.algorithmProficiency = pr]
  /\ UNCHANGED <<submissions, pc, loc, resp, fails, base, calc>>

(* --------------------------- specifications --------------------------- *)
\* concurrent submit requests of the user
Next == \E r \in Req : Step(r)

Spec == Init /\ [][Next]_vars

\* request r runs while no other request is in flight
Alone(r) == \A q \in Req \ {r} : pc[q] \in {"idle", "done"}

StepSeq(r) ==
  \/ Alone(r) /\ Submit(r)
  \/ Alone(r) /\ Reject(r)
  \/ Alone(r) /\ Persist(r)
  \/ Alone(r) /\ StatsRead(r)
  \/ Alone(r) /\ StatsWrite(r)
  \/ Alone(r) /\ StatsCount(r)
  \/ Alone(r) /\ EvalReadLevel(r)
  \/ Alone(r) /\ EvalReadSubs(r)
  \/ Alone(r) /\ ApplyAdjustment(r)
  \/ Alone(r) /\ ProfRead(r)
  \/ Alone(r) /\ ProfWrite(r)
  \/ Alone(r) /\ RecentRead(r)
  \/ Alone(r) /\ RecentWrite(r)
  \/ Alone(r) /\ Respond(r)
  \/ Alone(r) /\ DbFail(r)

NextSeq == \E r \in Req : StepSeq(r)

SpecSeq == Init /\ [][NextSeq]_vars

\* sequential submit requests and the warm-up write
NextWarm ==
  \/ \E r \in Req : StepSeq(r)
  \/ WarmupAssessment

SpecWarm == Init /\ [][NextWarm]_vars

\* the pipeline's variables where only a pure computation is examined
Idle ==
  /\ user = NewUser
  /\ base = [user |-> NewUser, submissions |-> <<>>]
  /\ pc = [r \in Req |-> "idle"]
  /\ loc = [r \in Req |-> InitLoc]
  /\ resp = [r \in Req |-> "none"]
  /\ fails = 0
  /\ warmups = 0

SeqsUpTo(S, n) == UNION {[1..k -> S] : k \in 0..n}

\* evaluateDifficultyAdjustment on every level and every score history
EvalLevels == MinLevel..MaxLevel
EvalScoreValues == {0, 49, 50, 75, 80, 100, 120}

InitEval ==
  /\ Idle
  /\ submissions = <<>>
  /\ \E L \in EvalLevels, s \in SeqsUpTo(EvalScoreValues, EvalTake) :
       calc = [kind |-> "eval", level |-> L, scores |-> s, done |-> FALSE,
               out |-> NoAdjustment]

Evaluate ==
  /\ calc.kind = "eval"
  /\ ~calc.done
  /\ calc' = [calc EXCEPT !.done = TRUE,
                          !.out = evaluateDifficultyAdjustment(calc.level, calc.scores)]
  /\ UNCHANGED <<user, submissions, pc, loc, resp, fails, warmups, base>>

SpecEval == InitEval /\ [][Evaluate]_vars

\* scoring and submission.create on every combination of scoring inputs
TimeSamples == {0, 149, 150, 300, 301, 449, 450, 600, 601, 900, 901, 1800, 1801, 4000,
                250000, 1000000}
HintLists == {<<>>, <<1>>, <<2>>, <<1, 2>>, <<3, 1>>, <<1, 2, 3>>, <<1, 2, 3, 4>>, <<4>>}
ScoreInputs ==
  {in \in [passed : 0..MaxCases, total : 0..MaxCases, time : TimeSamples,
           difficulty : MinLevel..MaxLevel, hints : HintLists, analysis : -1..10,
           types : {<<"array">>}] : in.passed <= in.total}

InitScore ==
  /\ Idle
  /\ submissions = <<>>
  /\ \E in \in ScoreInputs :
       calc = [kind |-> "score", in |-> in, done |-> FALSE, out |-> NoFactors]

ScoreAndCreate ==
  /\ calc.kind = "score"
  /\ ~calc.done
  /\ calc' = [calc EXCEPT !.done = TRUE, !.out = FactorsOfInput(calc.in)]
  /\ submissions' = Append(submissions, RecordOf(calc.in))
  /\ UNCHANGED <<user, pc, loc, resp, fails, warmups, base>>

SpecScore == InitScore /\ [][ScoreAndCreate]_vars

\* updateAlgorithmProficiency, called up to MaxUpdates times one after the
\* other on stored maps, category lists and scores; lowRun and highRun count
\* the calls in a row that listed "array" with a score below 50 and with a
\* score of at least 90, runFrom is the value the run started from
ProfStarts ==
  [array : {0, 10, 11, 15, 50, 92, 98, 100}, dp : {0, 50}]
ProfTypeLists == {<<"array">>, <<"array", "dp">>, <<"array", "array">>}
ProfScores == {0, 55, 60, 75, 85, 95}

InitProf ==
  /\ Idle
  /\ submissions = <<>>
  /\ \E p \in ProfStarts :
       calc = [kind |-> "prof", prof |-> p, prev |-> p, types |-> <<>>, score |-> 0,
               n |-> 0, lowRun |-> 0, highRun |-> 0, runFrom |-> 0]

UpdateProf ==
  /\ calc.kind = "prof"
  /\ calc.n < MaxUpdates
  /\ \E types \in ProfTypeLists, score \in ProfScores :
       LET cur == IF calc.prof["array"] = 0 THEN DefaultProficiency ELSE calc.prof["array"]
           low == score < 50
           high == score >= 90
       IN calc' = [calc EXCEPT
                     !.prev = calc.prof,
                     !.prof = UpdateProficiency(calc.prof, types, score),
                     !.types = types,
                     !.score = score,
                     !.n = @ + 1,
                     !.lowRun = IF low THEN @ + 1 ELSE 0,
                     !.highRun = IF high THEN @ + 1 ELSE 0,
                     !.runFrom = IF (low /\ calc.lowRun = 0) \/ (high /\ calc.highRun = 0)
                                 THEN cur ELSE @]
  /\ UNCHANGED <<user, submissions, pc, loc, resp, fails, warmups, base>>

SpecProf == InitProf /\ [][UpdateProf]_vars

(* ------------------------------ code runner --------------------------- *)
\* Judge0Service.runTestCases over the test cases of a problem.  A test case
\* is its expected output; a runner answer is a status id (1 In Queue,
\* 2 Processing, 3 Accepted, 5 Time Limit Exceeded, 6 Compilation Error,
\* 11 Runtime Error) and a stdout ("null" when the runner reports none).
RunOutputs == {"a", "a\n"}
RunStatusIds == {1, 2, 3, 5, 6, 11}
RunStdouts == {"null", "a", " a\n", "b"}

\* String.prototype.trim on the strings used here
Trim(str) == IF str \in {"a\n", " a\n"} THEN "a" ELSE str

\* result.stdout?.trim() === testCase.output.trim()
OutputMatches(stdout, output) == stdout # "null" /\ Trim(stdout) = Trim(output)

\* the entry runTestCases pushes when executeCode throws
FailedRun(polls, err) ==
  [case |-> calc.i, passed |-> FALSE, status |-> InternalError, polls |-> polls,
   err |-> err]

InitRun ==
  /\ Idle
  /\ submissions = <<>>
  /\ \E cases \in SeqsUpTo(RunOutputs, MaxRunCases) :
       calc = [kind |-> "run", cases |-> cases, i |-> 1,
               phase |-> IF cases = <<>> THEN "done" ELSE "submit",
               attempts |-> 0, polls |-> 0, results |-> <<>>]

\* as PushResult, with the loop left after this entry
PushResult_Abort(entry) ==
  [calc EXCEPT !.results = Append(@, entry),
               !.i = @ + 1,
               !.attempts = 0,
               !.polls = 0,
               !.phase = IF ~entry.passed /\ entry.err # "none" THEN "done"
                         ELSE IF calc.i + 1 > Len(calc.cases) THEN "done" ELSE "submit"]

\* the for loop goes on to the next test case with this entry pushed
PushResult(entry) ==
  [calc EXCEPT !.results = Append(@, entry),
               !.i = @ + 1,
               !.attempts = 0,
               !.polls = 0,
               !.phase = IF calc.i + 1 > Len(calc.cases) THEN "done" ELSE "submit"]

RunFrame == UNCHANGED <<user, submissions, pc, loc, resp, fails, warmups, base>>

\* submitCode returns a token
SubmitCode ==
  /\ calc.kind = "run" /\ calc.phase = "submit"
  /\ calc' = [calc EXCEPT !.phase = "poll", !.attempts = 0, !.polls = 0]
  /\ RunFrame

\* submitCode throws
SubmitCodeFails ==
  /\ calc.kind = "run" /\ calc.phase = "submit"
  /\ calc' = PushResult(FailedRun(0, "submit"))
  /\ RunFrame

\* as GetResult, with the loop allowing one more turn
GetResult_Extra ==
  /\ calc.kind = "run" /\ calc.phase = "poll"
  /\ calc.attempts <= MaxAttempts
  /\ \E id \in RunStatusIds, stdout \in RunStdouts :
       /\ id \in {1, 2, 6} => stdout = "null"
       /\ IF id > 2
          THEN calc' = PushResult([case |-> calc.i,
                                   passed |-> OutputMatches(stdout, calc.cases[calc.i]),
                                   status |-> id, polls |-> calc.polls + 1,
                                   err |-> "none"])
          ELSE calc' = [calc EXCEPT !.attempts = @ + 1, !.polls = @ + 1]
  /\ RunFrame

\* one turn of the polling loop: getResult answers
GetResult ==
  /\ calc.kind = "run" /\ calc.phase = "poll"
  /\ calc.attempts < MaxAttempts
  /\ \E id \in RunStatusIds, stdout \in RunStdouts :
       /\ id \in {1, 2, 6} => stdout = "null"
       /\ IF id > 2
          THEN calc' = PushResult([case |-> calc.i,
                                   passed |-> OutputMatches(stdout, calc.cases[calc.i]),
                                   status |-> id, polls |-> calc.polls + 1,
                                   err |-> "none"])
          ELSE calc' = [calc EXCEPT !.attempts = @ + 1, !.polls = @ + 1]
  /\ RunFrame

\* one turn of the polling loop: getResult throws
GetResultFails ==
  /\ calc.kind = "run" /\ calc.phase = "poll"
  /\ calc.attempts < MaxAttempts
  /\ calc' = PushResult(FailedRun(calc.polls + 1, "fetch"))
  /\ RunFrame

\* the loop ran out of attempts: executeCode throws
PollTimeout ==
  /\ calc.kind = "run" /\ calc.phase = "poll"
  /\ calc.attempts >= MaxAttempts
  /\ calc' = PushResult(FailedRun(calc.polls, "timeout"))
  /\ RunFrame

NextRun ==
  \/ SubmitCode
  \/ SubmitCodeFails
  \/ GetResult
  \/ GetResultFails
  \/ PollTimeout

\* every HTTP call of the runner client answers or throws
SpecRun == InitRun /\ [][NextRun]_vars /\ WF_vars(NextRun)

(* ------------------- hint requests, problem deletion ------------------- *)
\* One user, their own private problem "mine" and a public problem "shared".
\* calc holds the problems and hints tables and the hint requests in flight;
\* submissions holds the user's rows of the submissions table.
HintReq == 1..NHintReq
ProblemIds == {"mine", "shared"}
HintLevels == MinHintLevel..MaxHintLevel

\* the hints table of the user: how many rows it holds per problem and level
NoHints == [p \in ProblemIds |-> [l \in HintLevels |-> 0]]
HintRows(rows) == Sum([i \in 1..(2 * MaxHintLevel) |->
                        IF i <= MaxHintLevel THEN rows["mine"][i]
                        ELSE rows["shared"][i - MaxHintLevel]])

\* prisma.hint.findMany({ where: { userId, problemId } }) as the levels found
LevelSet(rows, p) == {l \in HintLevels : rows[p][l] > 0}

\* usedHints.map(h => h.hintLevel): one entry per row
RECURSIVE LevelsFrom(_, _, _)
LevelsFrom(rows, p, l) ==
  IF l > MaxHintLevel THEN <<>>
  ELSE [i \in 1..rows[p][l] |-> l] \o LevelsFrom(rows, p, l + 1)
LevelsSeq(rows, p) == LevelsFrom(rows, p, MinHintLevel)

\* as HasPreviousLevel, with every level open from the start
HasPreviousLevel_Any(existing, hintLevel) == TRUE

\* the level-by-level check of POST /request
HasPreviousLevel(existing, hintLevel) ==
  hintLevel <= 1 \/ (hintLevel - 1) \in existing

\* had: the requested level was among the rows read; made: rows created
NewHintReq ==
  [pc |-> "idle", problemId |-> "none", hintLevel |-> 0, force |-> FALSE,
   had |-> FALSE, resp |-> "none", made |-> 0]

\* the handler has answered: its parameters are no longer read
HintDone(q, answer, made) ==
  [q EXCEPT !.pc = "done", !.resp = answer, !.made = made,
            !.problemId = "none", !.hintLevel = 0]

InitHints ==
  /\ Idle
  /\ submissions = <<>>
  /\ calc = [kind |-> "hints", problems |-> ProblemIds, hints |-> NoHints,
             req |-> [r \in HintReq |-> NewHintReq]]

\* POST /request up to the end of its checks on the rows of hint.findMany
HintRequest(r) ==
  /\ calc.kind = "hints"
  /\ calc.req[r].pc \in {"idle", "done"}
  /\ HintRows(calc.hints) < MaxHintRows
  /\ \E p \in ProblemIds, hintLevel \in HintLevels, forceRegenerate \in BOOLEAN :
       LET existing == LevelSet(calc.hints, p)
           q == [NewHintReq EXCEPT !.problemId = p, !.hintLevel = hintLevel,
                                   !.force = forceRegenerate,
                                   !.had = hintLevel \in existing]
       IN calc' = [calc EXCEPT !.req[r] =
                     IF ~HasPreviousLevel(existing, hintLevel)
                     THEN HintDone(q, "err400", 0)
                     ELSE IF ~forceRegenerate /\ hintLevel \in existing
                     THEN HintDone(q, "stored", 0)
                     ELSE [q EXCEPT !.pc = "problem"]]
  /\ UNCHANGED <<user, submissions, pc, loc, resp, fails, warmups, base>>

\* prisma.problem.findUnique of POST /request
HintProblem(r) ==
  /\ calc.kind = "hints"
  /\ calc.req[r].pc = "problem"
  /\ calc' = [calc EXCEPT !.req[r] =
                IF @.problemId \in calc.problems
                THEN [@ EXCEPT !.pc = "llm"]
                ELSE HintDone(@, "err404", 0)]
  /\ UNCHANGED <<user, submissions, pc, loc, resp, fails, warmups, base>>

\* createLLMService and generateHint: they answer or throw
HintGenerate(r) ==
  /\ calc.kind = "hints"
  /\ calc.req[r].pc = "llm"
  /\ \E ok \in BOOLEAN :
       calc' = [calc EXCEPT !.req[r] =
                  IF ok THEN [@ EXCEPT !.pc = "create"]
                  ELSE HintDone(@, "err500", 0)]
  /\ UNCHANGED <<user, submissions, pc, loc, resp, fails, warmups, base>>

\* prisma.hint.create and the response; the foreign key on problem_id makes
\* the insert throw when the problem has been deleted in the meantime
HintCreate(r) ==
  /\ calc.kind = "hints"
  /\ calc.req[r].pc = "create"
  /\ LET q == calc.req[r] IN
     IF q.problemId \in calc.problems
     THEN calc' = [calc EXCEPT
                     !.hints[q.problemId][q.hintLevel] = @ + 1,
                     !.req[r] = HintDone(@, "new", 1)]
     ELSE calc' = [calc EXCEPT !.req[r] = HintDone(@, "err500", 0)]
  /\ UNCHANGED <<user, submissions, pc, loc, resp, fails, warmups, base>>

\* the row of submission.create for problem p
SubmissionRow(p, in) ==
  [problemId |-> p, score |-> ScoreOfInput(in), status |-> StatusOf(in.passed, in.total),
   passedCases |-> in.passed, totalCases |-> in.total]

\* one whole POST /submit for an existing problem, its hint penalty taken
\* from the hint rows of that problem
SubmitTo ==
  /\ calc.kind = "hints"
  /\ Len(submissions) < MaxRows
  /\ \E p \in calc.problems, passed \in {0, 4, 5} :
       LET in == [passed |-> passed, total |-> 5, time |-> 0, difficulty |-> 5,
                  hints |-> LevelsSeq(calc.hints, p), analysis |-> -1,
                  types |-> <<"array">>]
           st == RunRecord([user |-> user, submissions |-> submissions],
                           SubmissionRow(p, in), in.types)
       IN /\ user' = st.user
          /\ submissions' = st.submissions
  /\ UNCHANGED <<pc, loc, resp, fails, warmups, base, calc>>

\* DELETE /api/problems/:id by the creator of a private problem; the foreign
\* keys of submissions and hints on problem_id are ON DELETE CASCADE
DeleteProblem ==
  /\ calc.kind = "hints"
  /\ "mine" \in calc.problems
  /\ calc' = [calc EXCEPT !.problems = @ \ {"mine"},
                          !.hints["mine"] = [l \in HintLevels |-> 0]]
  /\ submissions' = SelectSeq(submissions, LAMBDA row : row.problemId # "mine")
  /\ UNCHANGED <<user, pc, loc, resp, fails, warmups, base>>

NextHints ==
  \/ \E r \in HintReq : HintRequest(r)
  \/ \E r \in HintReq : HintProblem(r)
  \/ \E r \in HintReq : HintGenerate(r)
  \/ \E r \in HintReq : HintCreate(r)
  \/ DeleteProblem

SpecHints == InitHints /\ [][NextHints]_vars

\* the hint rows of a problem whose levels 1..k have been obtained
HintsUpTo(k) == [l \in HintLevels |-> IF l <= k THEN 1 ELSE 0]

\* submissions and problem deletion, with no hint request in flight
InitProblems ==
  /\ Idle
  /\ submissions = <<>>
  /\ \E k1, k2 \in 0..MaxHintLevel :
       calc = [kind |-> "hints", problems |-> ProblemIds,
               hints |-> [p \in ProblemIds |->
                            IF p = "mine" THEN HintsUpTo(k1) ELSE HintsUpTo(k2)],
               req |-> [r \in HintReq |-> NewHintReq]]

NextProblems ==
  \/ SubmitTo
  \/ DeleteProblem

SpecProblems == InitProblems /\ [][NextProblems]_vars

\* a user fresh from the warm-up assessment, at any level, who submits one
\* solution after the other
StreakInputs ==
  [passed : {0, 5}, total : {5}, time : {0}, difficulty : {5},
   hints : {<<>>, <<1, 2>>}, analysis : {-1}, types : {<<"array">>}]

InitStreak ==
  /\ \E L \in MinLevel..MaxLevel :
       /\ user = [NewUser EXCEPT !.currentLevel = L]
       /\ base = [user |-> [NewUser EXCEPT !.currentLevel = L], submissions |-> <<>>]
  /\ submissions = <<>>
  /\ pc = [r \in Req |-> "idle"]
  /\ loc = [r \in Req |-> InitLoc]
  /\ resp = [r \in Req |-> "none"]
  /\ fails = 0
  /\ warmups = 0
  /\ calc = [kind |-> "streak"]

\* one whole POST /submit, nothing interleaved and no call failing
SubmitNext ==
  /\ calc.kind = "streak"
  /\ Len(submissions) < MaxStreak
  /\ \E in \in StreakInputs :
       LET st == RunPipeline([user |-> user, submissions |-> submissions], in)
       IN user' = st.user /\ submissions' = st.submissions
  /\ UNCHANGED <<pc, loc, resp, fails, warmups, base, calc>>

SpecStreak == InitStreak /\ [][SubmitNext]_vars

(* ------------------------------- claims ------------------------------- *)

\* the orders in which the requests can run one after the other
Orders == {o \in [1..NReq -> Req] : \A i, j \in 1..NReq : i # j => o[i] # o[j]}

\* the state after the first n requests of order o ran serially from base
RECURSIVE SerialOutcome(_, _)
SerialOutcome(o, n) ==
  IF n = 0 THEN base
  ELSE LET r == o[n] IN
       RunRecord(SerialOutcome(o, n - 1),
                 [score |-> loc[r].score, status |-> loc[r].status,
                  passedCases |-> loc[r].passedCases, totalCases |-> loc[r].totalCases],
                 loc[r].types)

\* C1: the user's persisted currentLevel is always an integer within 1..10,
\* whatever sequence of difficulty adjustments and warm-up assessment writes
\* has been applied.
C1_LevelWithinRange == user.currentLevel \in 1..10

\* C2: evaluateDifficultyAdjustment raises the level by one iff L < 10 and
\* (3 or more scores with the 3 most recent all >= 80, or 5 scores with mean
\* >= 85); otherwise lowers it by one iff L > 1 and (2 or more scores with
\* the 2 most recent both < 50, or 5 scores with mean < 40); otherwise it
\* does not adjust.  Fewer than 2 scores never adjust, and an adjustment
\* always moves the level by exactly 1.
C2_DecisionRules ==
  (calc.kind = "eval" /\ calc.done) =>
    LET L == calc.level
        s == calc.scores
        n == Len(s)
        inc == L < 10 /\ ( (n >= 3 /\ s[1] >= 80 /\ s[2] >= 80 /\ s[3] >= 80)
                           \/ (n >= 5 /\ s[1] + s[2] + s[3] + s[4] + s[5] >= 5 * 85) )
        dec == L > 1 /\ ( (n >= 2 /\ s[1] < 50 /\ s[2] < 50)
                          \/ (n >= 5 /\ s[1] + s[2] + s[3] + s[4] + s[5] < 5 * 40) )
    IN /\ inc => calc.out = [shouldAdjust |-> TRUE, newLevel |-> L + 1, direction |-> "up"]
       /\ (~inc /\ dec) =>
            calc.out = [shouldAdjust |-> TRUE, newLevel |-> L - 1, direction |-> "down"]
       /\ (~inc /\ ~dec) => ~calc.out.shouldAdjust
       /\ n < 2 => ~calc.out.shouldAdjust
       /\ L = 10 => calc.out.direction # "up"
       /\ L = 1 => calc.out.direction # "down"

\* C2 witness: a level was raised by the mean rule alone (the three most
\* recent scores are not all >= 80).
C2_Witness ==
  /\ calc.kind = "eval" /\ calc.done
  /\ calc.out.direction = "up"
  /\ \E i \in 1..3 : calc.scores[i] < 80

\* C3: two submissions of the same user whose pipelines interleave end with
\* the recentScores, algorithmProficiency and currentLevel that running the
\* pipelines one after the other, in some order, produces: no update is lost.
C3_SerialEquivalence ==
  (\A r \in Req : pc[r] = "done" /\ resp[r] = "ok" /\ ~loc[r].failed) =>
    \E o \in Orders :
      LET u == SerialOutcome(o, NReq).user IN
      /\ user.recentScores = u.recentScores
      /\ user.algorithmProficiency = u.algorithmProficiency
      /\ user.currentLevel = u.currentLevel

\* C4: once the SubmissionRecord is persisted, a failure of a later
\* profile-state step is only logged and the request still answers with the
\* successful submission result.
C4_ProfileFailureOnlyLogged ==
  \A r \in Req : (pc[r] = "done" /\ loc[r].created) => resp[r] = "ok"

\* C5: when persisting the SubmissionRecord fails, the request answers with
\* a server error, no submission record appears and no field of the user's
\* profile is changed by that request (neither by the failing call nor by the
\* steps of the request before it).
C5_PersistFailureIsClean ==
  [][\A r \in Req :
       /\ (pc[r] = "persist" /\ fails' # fails /\ pc'[r] # pc[r]) =>
            /\ pc'[r] = "done"
            /\ resp'[r] = "err500"
            /\ submissions' = submissions
            /\ user' = user
       /\ (pc[r] = "idle" /\ pc'[r] # pc[r]) =>
            (submissions' = submissions /\ user' = user)]_vars

\* C5 witness: a request has ended with a server error on its failed
\* submission.create.
C5_Witness ==
  \E r \in Req :
    pc[r] = "done" /\ resp[r] = "err500" /\ loc[r].failed /\ ~loc[r].created

\* C6: a submission whose status is wrong_answer leaves the user's
\* recentScores exactly as it was before the request (no other request
\* running).
C6_WrongAnswerKeepsWindow ==
  [][\A r \in Req :
       (loc[r].status = "wrong_answer" /\ pc[r] \notin {"idle", "done"} /\ Alone(r)) =>
         user'.recentScores = user.recentScores]_vars

\* C7: in sequential submissions a single submission never appends its score
\* to recentScores twice: each pushed submission contributes one entry.
C7_OneEntryPerSubmission == \A r \in Req : loc[r].pushes <= 1

\* C8: recentScores never holds more than 10 entries, and a push onto a full
\* 10-entry window yields the window without its oldest entry, the other 9 in
\* order, and the new score last (a push onto a shorter window appends).
C8_WindowBounded ==
  /\ Len(user.recentScores) <= 10
  /\ [][user'.recentScores # user.recentScores =>
          /\ Len(user'.recentScores) <= 10
          /\ \E r \in Req :
               /\ pc'[r] # pc[r]
               /\ LET w == loc[r].snapScores IN
                    user'.recentScores =
                      IF Len(w) = 10 THEN Append(Tail(w), loc[r].score)
                      ELSE Append(w, loc[r].score)]_vars

\* C8 witness: a request of a user whose window was already full has pushed
\* its score.
C8_Witness ==
  /\ Len(base.user.recentScores) = 10
  /\ \E r \in Req : loc[r].pushes >= 1 /\ pc[r] = "respond"

\* the up-to-5 most recent records of the submissions table, most recent first
C9_History ==
  LET n == Len(submissions)
      k == IF n < 5 THEN n ELSE 5
  IN [i \in 1..k |-> submissions[n + 1 - i].score]

\* the up-to-5 most recent entries of the recent-score window, most recent first
C9_Window ==
  LET n == Len(user.recentScores)
      k == IF n < 5 THEN n ELSE 5
  IN [i \in 1..k |-> user.recentScores[n + 1 - i]]

C9_Decided(level, scores) ==
  LET adj == evaluateDifficultyAdjustment(level, scores)
  IN IF adj.shouldAdjust THEN adj.newLevel ELSE 0

C10_ScoreWithin100 ==
  \A i \in 1..Len(submissions) : submissions[i].score \in 0..100

\* C10 as amended: the score stored in every SubmissionRecord is within
\* 0..120, for every combination of pass counts, execution time, difficulty,
\* hints used and analyzer overallScore within 0..10.
C10_ScoreWithin120 ==
  \A i \in 1..Len(submissions) : submissions[i].score \in 0..120

\* C10 witness: a record with the largest score, 120, has been created.
C10_Witness ==
  \E i \in 1..Len(submissions) : submissions[i].score = 120

\* the exact coefficients of the double values the code multiplies, and the
\* exact rounding of their product
C11_Exact(f) ==
  (f.correctnessCoeff * f.timeCoeff * f.hintPenalty * f.qualityCoeff + 500) \div 1000

C11_Scenario(in) ==
  /\ in.passed = 7 /\ in.total = 10 /\ in.time = 1000000 /\ in.difficulty = 5
  /\ in.hints = <<2>> /\ in.analysis = -1

C12_Band(time, e) ==
  IF 2 * time < e THEN 12
  ELSE IF time <= e THEN 10
  ELSE IF time <= 2 * e THEN 9
  ELSE 7

C12_Scenario(in) ==
  /\ in.passed = 10 /\ in.total = 10 /\ in.time = 250000 /\ in.difficulty = 5
  /\ in.hints = <<>> /\ in.analysis = -1

C13_CorrectnessPiecewise ==
  (calc.kind = "score" /\ calc.done) =>
    LET p == calc.in.passed
        n == calc.in.total
        c == calc.out.correctnessCoeff
    IN IF n = 0 THEN c = 0
       ELSE /\ (p = n) => c = 10
            /\ (10 * p >= 8 * n /\ p < n) => c = 7
            /\ (10 * p >= 5 * n /\ 10 * p < 8 * n) => c = 4
            /\ (10 * p < 5 * n) => c = 0

\* C13 witness: a problem without test cases has been scored, and so has a
\* submission exactly on the 0.8 boundary.
C13_Witness ==
  /\ calc.kind = "score" /\ calc.done
  /\ \/ (calc.in.total = 0 /\ calc.out.correctnessCoeff = 0)
     \/ (calc.in.passed = 4 /\ calc.in.total = 5 /\ calc.out.correctnessCoeff = 7)

C14_MaxLevel(h) ==
  IF \E i \in 1..Len(h) : h[i] = 4 THEN 4
  ELSE IF \E i \in 1..Len(h) : h[i] = 3 THEN 3
  ELSE IF \E i \in 1..Len(h) : h[i] = 2 THEN 2
  ELSE IF \E i \in 1..Len(h) : h[i] = 1 THEN 1
  ELSE 0

C14_ScoreWith(h) == FactorsOfInput([calc.in EXCEPT !.hints = h]).finalScore

\* C14: the hint penalty depends only on the maximum hint level used (none
\* 1.0, 1: 0.95, 2: 0.85, 3: 0.70, 4: 0.50), and with everything else fixed
\* the score with hints {4} <= the score with hints {1} <= the score with no
\* hints.
C14_HintPenaltyByMaxLevel ==
  (calc.kind = "score" /\ calc.done) =>
    /\ calc.out.hintPenalty =
         (CASE C14_MaxLevel(calc.in.hints) = 0 -> 100
            [] C14_MaxLevel(calc.in.hints) = 1 -> 95
            [] C14_MaxLevel(calc.in.hints) = 2 -> 85
            [] C14_MaxLevel(calc.in.hints) = 3 -> 70
            [] C14_MaxLevel(calc.in.hints) = 4 -> 50)
    /\ C14_ScoreWith(<<4>>) <= C14_ScoreWith(<<1>>)
    /\ C14_ScoreWith(<<1>>) <= C14_ScoreWith(<<>>)

\* C14 witness: a submission with hint levels 3 and 1 on record, listed with
\* the lower level last, has been scored with a non-zero score.
C14_Witness ==
  /\ calc.kind = "score" /\ calc.done
  /\ calc.in.hints = <<3, 1>> /\ calc.out.finalScore > 0

\* C15: the quality coefficient is the supplied value as given: for an
\* accepted submission whose analyzer reports overallScore s in 0..10 it is
\* s/10 (s = 0 gives coefficient 0 and final score 0), and 1.0 when analysis
\* is skipped or fails.
C15_QualityAsGiven ==
  (calc.kind = "score" /\ calc.done) =>
    IF calc.in.total > 0 /\ calc.in.passed = calc.in.total /\ calc.in.analysis >= 0
    THEN /\ calc.out.qualityCoeff = calc.in.analysis
         /\ calc.in.analysis = 0 => calc.out.finalScore = 0
    ELSE calc.out.qualityCoeff = 10

\* C16 as amended: every persisted SubmissionRecord has status accepted if
\* and only if the problem has at least one test case and all of them passed,
\* otherwise wrong_answer; no other status is written, and 0 <= passedCases
\* <= totalCases = number of the problem's test cases.
C16_StatusAcceptedIffAllOfSome ==
  \A i \in 1..Len(submissions) :
    LET rec == submissions[i] IN
    /\ rec.status \in {"accepted", "wrong_answer"}
    /\ rec.status = "accepted" <=> (rec.totalCases > 0 /\ rec.passedCases = rec.totalCases)
    /\ 0 <= rec.passedCases /\ rec.passedCases <= rec.totalCases
    /\ (calc.kind = "score" /\ calc.done) => rec.totalCases = calc.in.total

\* C16 as claimed: every persisted SubmissionRecord has status accepted if
\* and only if passedCases = totalCases, otherwise wrong_answer.
C16_StatusAcceptedIffAllPassed ==
  \A i \in 1..Len(submissions) :
    LET rec == submissions[i] IN
    /\ rec.status \in {"accepted", "wrong_answer"}
    /\ rec.status = "accepted" <=> rec.passedCases = rec.totalCases

\* C16 witness: the record of a submission to a problem without test cases
\* has been created.
C16_Witness ==
  \E i \in 1..Len(submissions) :
    submissions[i].totalCases = 0 /\ submissions[i].status = "wrong_answer"

\* the requests whose statistics update has succeeded for certain
C17_PastStats ==
  {r \in Req : \/ pc[r] \in {"eval_level", "eval_subs", "apply", "prof_read", "prof_write",
                             "rp_read", "rp_write", "respond"}
               \/ (pc[r] = "done" /\ resp[r] = "ok")}

C17_Persisted == {r \in Req : loc[r].created}

C17_StatsStep(r) == pc[r] \in {"stats", "stats_write"} /\ pc'[r] = "eval_level"

\* what one step does to the counters
C17_StepCounts ==
  /\ \A r \in Req :
       C17_StatsStep(r) =>
         /\ loc[r].created
         /\ user'.totalSubmissions = user.totalSubmissions + 1
         /\ user'.totalProblemsSolved =
              user.totalProblemsSolved + (IF loc[r].status = "accepted" THEN 1 ELSE 0)
  /\ (\/ user'.totalSubmissions # user.totalSubmissions
      \/ user'.totalProblemsSolved # user.totalProblemsSolved) =>
        \E r \in Req : C17_StatsStep(r)
  /\ LET n == user'.totalSubmissions - base.user.totalSubmissions IN
     /\ Cardinality({r \in Req : loc'[r].created}) >= n
     /\ (fails' = 0 /\ \A r \in Req : pc'[r] = "done") =>
          n = Cardinality({r \in Req : loc'[r].created})

C20_ProficiencyAlwaysAttempted ==
  \A r \in Req : (pc[r] = "done" /\ loc[r].created) => loc[r].profTried

C18_Delta(score) ==
  CASE score >= 90 -> 3
    [] score >= 80 /\ score < 90 -> 2
    [] score >= 70 /\ score < 80 -> 1
    [] score >= 60 /\ score < 70 -> 0
    [] score >= 50 /\ score < 60 -> -1
    [] score < 50 -> -2

C18_Clamp(v) == IF v < 10 THEN 10 ELSE IF v > 100 THEN 100 ELSE v

\* C18: updateAlgorithmProficiency changes, for each category listed for
\* the problem, the stored value v (5.0 when absent) to clamp(v + delta, 1.0,
\* 10.0), each listed category moving by the delta exactly once, and leaves
\* every category not listed as it was.
C18_EachListedMovesOnce ==
  (calc.kind = "prof" /\ calc.n > 0) =>
    \A c \in Categories :
      IF \E i \in 1..Len(calc.types) : calc.types[i] = c
      THEN calc.prof[c] =
             C18_Clamp((IF calc.prev[c] = 0 THEN 50 ELSE calc.prev[c]) + C18_Delta(calc.score))
      ELSE calc.prof[c] = calc.prev[c]

\* C19: every value written for a category stays within 1.0..10.0; updates
\* in a row with score < 50 on the same category go down to exactly 1.0 and
\* stay there, updates in a row with score >= 90 go up to exactly 10.0 and
\* stay there.
C19_ProficiencyClamped ==
  (calc.kind = "prof" /\ calc.n > 0) =>
    /\ \A c \in Categories :
         (\E i \in 1..Len(calc.types) : calc.types[i] = c) => calc.prof[c] \in 10..100
    /\ \A c \in Categories : calc.prof[c] = 0 \/ calc.prof[c] \in 10..100
    /\ calc.lowRun > 0 =>
         /\ calc.prof["array"] <= C18_Clamp(calc.runFrom - 2 * calc.lowRun)
         /\ (2 * calc.lowRun >= calc.runFrom - 10) => calc.prof["array"] = 10
         /\ (calc.lowRun > 1 /\ calc.prev["array"] = 10) => calc.prof["array"] = 10
    /\ calc.highRun > 0 =>
         /\ calc.prof["array"] >= C18_Clamp(calc.runFrom + 3 * calc.highRun)
         /\ (3 * calc.highRun >= 100 - calc.runFrom) => calc.prof["array"] = 100
         /\ (calc.highRun > 1 /\ calc.prev["array"] = 100) => calc.prof["array"] = 100

\* C19 witness: three low scores in a row have taken a category from 1.5 to
\* 1.0, where it stayed for the last of them.
C19_Witness ==
  /\ calc.kind = "prof" /\ calc.lowRun = 3 /\ calc.runFrom = 15
  /\ calc.types = <<"array">> /\ calc.prev["array"] \in {10, 11} /\ calc.prof["array"] = 10

\* C21: a runner failure on one test case (submit error, result-fetch error
\* or polling exhaustion) is recorded as passed=false for that case only; the
\* remaining test cases are still executed, and the result vector has exactly
\* one entry per test case, in test-case order.
C21_FailureIsPerCase ==
  calc.kind = "run" =>
    /\ Len(calc.results) = calc.i - 1
    /\ calc.i <= Len(calc.cases) + 1
    /\ calc.phase = "done" <=> Len(calc.results) = Len(calc.cases)
    /\ \A k \in 1..Len(calc.results) :
         /\ calc.results[k].case = k
         /\ calc.results[k].err # "none" => ~calc.results[k].passed

\* C21 witness: the first test case failed in the runner and the second one
\* was still run and passed.
C21_Witness ==
  /\ calc.kind = "run" /\ calc.phase = "done" /\ Len(calc.results) = 2
  /\ calc.results[1].err = "timeout" /\ calc.results[2].passed

C30_PassedOnlyOnSuccess ==
  calc.kind = "run" =>
    \A k \in 1..Len(calc.results) :
      calc.results[k].passed => calc.results[k].status = 3

\* C22: the quality analyzer is invoked only for a submission whose status is
\* accepted; when it fails the quality coefficient is 1.0 (10 tenths), the
\* request goes on to be scored and persisted, and the analyzer's failure
\* causes no error response: a server error comes only from a failed
\* database call, and a request without one ends with its record created
\* and a success response.
C22_AnalyzerFailureSwallowed ==
  \A r \in Req :
    /\ loc[r].analyzer \in {"ok", "failed"} => loc[r].status = "accepted"
    /\ loc[r].analyzer = "failed" =>
         /\ loc[r].quality = 10
         /\ pc[r] # "idle"
         /\ resp[r] = "err500" => loc[r].failed
         /\ (pc[r] = "done" /\ ~loc[r].failed) =>
              (resp[r] = "ok" /\ loc[r].created)

\* C22 witness: a request whose analysis failed has been persisted and
\* answered with success.
C22_Witness ==
  \E r \in Req :
    /\ loc[r].analyzer = "failed" /\ loc[r].quality = 10
    /\ pc[r] = "done" /\ resp[r] = "ok" /\ loc[r].created

\* C23: a submit request that is malformed, names a problem that does not
\* exist, or names a private problem of another user is rejected with no
\* side effects: it ends with a 400 or 404 response, creates no submission
\* record and makes no profile update.
C23_RejectedWithoutSideEffects ==
  \A r \in Req :
    loc[r].request \in {"malformed", "missing", "private"} =>
      /\ pc[r] = "done"
      /\ resp[r] \in {"err400", "err404"}
      /\ ~loc[r].created
      /\ loc[r].pushes = 0
      /\ ~loc[r].profTried

C24_Prefixed ==
  calc.kind = "hints" =>
    /\ \A p \in ProblemIds :
         \E k \in 0..MaxHintLevel : LevelSet(calc.hints, p) = 1..k
    /\ \A r \in HintReq : calc.req[r].resp = "err400" => calc.req[r].made = 0

C24_CreateStep ==
  \A p \in ProblemIds, l \in HintLevels :
    (calc'.hints[p][l] > calc.hints[p][l] /\ l > 1) => calc.hints[p][l - 1] > 0

\* C24: hint levels unlock strictly in order: a hint record of level L > 1 is
\* created for a problem only while a record of level L-1 exists for it, a
\* request rejected by the level check creates no record, and in every
\* reachable state the levels recorded for a problem are exactly 1..k for
\* some k in 0..4.
C24_LevelsUnlockInOrder == []C24_Prefixed /\ [][C24_CreateStep]_vars

\* C24 witness: all four levels of the public problem have been obtained
\* and a request has been rejected by the level check.
C24_Witness ==
  /\ calc.kind = "hints"
  /\ LevelSet(calc.hints, "shared") = 1..MaxHintLevel
  /\ \E r \in HintReq : calc.req[r].resp = "err400" /\ calc.req[r].made = 0

\* C25: there is at most one hint record per problem and level, and a
\* request for a level that was already obtained answers with the stored
\* hint and creates no record, force-regenerated requests included.
C25_OneRecordPerLevel ==
  calc.kind = "hints" =>
    /\ \A p \in ProblemIds, l \in HintLevels : calc.hints[p][l] <= 1
    /\ \A r \in HintReq :
         (calc.req[r].pc = "done" /\ calc.req[r].had) =>
           (calc.req[r].resp = "stored" /\ calc.req[r].made = 0)

C26_Kept ==
  /\ Len(submissions') >= Len(submissions)
  /\ \A i \in 1..Len(submissions) : submissions'[i] = submissions[i]

\* C26: the submission history is append-only: every step keeps each
\* existing submission record as it is, so the records only grow.
C26_AppendOnly == [][C26_Kept]_vars

\* C28: an evaluation whose two most recent scores are both below 50 never
\* raises the level, for score histories with scores up to 120.
C28_TwoLowNeverRaise ==
  ( /\ calc.kind = "eval" /\ calc.done
    /\ Len(calc.scores) >= 2
    /\ calc.scores[1] < 50 /\ calc.scores[2] < 50 )
  => calc.out.direction # "up"

\* C29: a user who starts at level L <= 8 with no submissions and has made
\* four submissions, each scoring at least 80, is at level L+1.
C29_FourGoodRaiseOnce ==
  ( /\ calc.kind = "streak"
    /\ base.user.currentLevel <= 8
    /\ Len(submissions) = 4
    /\ \A i \in 1..4 : submissions[i].score >= 80 )
  => user.currentLevel = base.user.currentLevel + 1

====
